---- MODULE Spec2Model ----
(***************************************************************************)
(* Model of src/main.py: the YouTube transcription service.                *)
(*                                                                         *)
(* A text (Python str) is a sequence of one-character strings.  Three      *)
(* specifications share the variables:                                     *)
(*   Spec         one POST /transcribe request, step by step               *)
(*   SpecExtract  extract_video_id applied to a family of input strings    *)
(*   SpecParse    parse_json3_subtitles applied to a family of payloads    *)
(***************************************************************************)
EXTENDS Integers, Sequences, FiniteSets, TLC

VARIABLES
    pc,                      \* position of the request / of the function call
    url,                     \* request.url, the argument of extract_video_id
    video_id,                \* outcome of extract_video_id(url)
    subtitles,               \* info['subtitles']: language -> track list
    automatic_captions,      \* info['automatic_captions']
    possible_transcriptions, \* the list built by get_subtitles_with_ytdlp
    cursor,                  \* index of the next json3 track to download; 0 before the catalog is there
    fetched,                 \* log of the ydl.urlopen calls of this request
    outcome,                 \* outcome of get_subtitles_with_ytdlp
    response,                \* the HTTP response of transcribe_video
    json_data,               \* the argument of parse_json3_subtitles
    parsed                   \* outcome of parse_json3_subtitles(json_data)

vars == <<pc, url, video_id, subtitles, automatic_captions,
          possible_transcriptions, cursor, fetched, outcome, response,
          json_data, parsed>>

----------------------------------------------------------------------------
(* Bounds of the model *)

MaxTracks == 3      \* caption tracks in one catalog, manual and automatic together
MaxTextLen == 1     \* characters of one utf8 / aAppend value of a generated payload
MaxSegs == 2        \* entries of one event's segs list
MaxEvents == 2      \* events of one generated payload

----------------------------------------------------------------------------
(* Outcomes of a call: a returned text or a raised exception *)

NoResult ==
    [kind |-> "none", text |-> <<>>, exc |-> "", msg |-> "", langs |-> {}, status |-> 0]

Return(t) ==
    [kind |-> "return", text |-> t, exc |-> "", msg |-> "", langs |-> {}, status |-> 0]

\* an exception of class cls; msg names the message, langs the languages it lists
Raise(cls, m, ls) ==
    [kind |-> "raise", text |-> <<>>, exc |-> cls, msg |-> m, langs |-> ls, status |-> 0]

\* HTTPException(status_code=code, detail=...)
HTTPException(code, m, ls) ==
    [kind |-> "raise", text |-> <<>>, exc |-> "HTTPException", msg |-> m, langs |-> ls,
     status |-> code]

\* json.JSONDecodeError derives from ValueError; the others derive from Exception only.
IsValueError(cls) == cls \in {"ValueError", "JSONDecodeError"}

IsHTTPException(cls) == cls = "HTTPException"

----------------------------------------------------------------------------
(* Python str operations *)

Whitespace == {" ", "\n", "\t"}

Min(S) == CHOOSE x \in S : \A y \in S : x <= y

Max(S) == CHOOSE x \in S : \A y \in S : x >= y

\* text.replace('\n', ' ')
ReplaceNewlines(t) == [i \in 1..Len(t) |-> IF t[i] = "\n" THEN " " ELSE t[i]]

\* text.strip()
Strip(t) ==
    LET keep == {i \in 1..Len(t) : t[i] \notin Whitespace}
    IN  IF keep = {} THEN <<>> ELSE SubSeq(t, Min(keep), Max(keep))

\* re.sub(r'\s+', ' ', text): every maximal run of whitespace becomes one space
RECURSIVE CollapseWhitespace(_)
CollapseWhitespace(t) ==
    IF t = <<>> THEN <<>>
    ELSE IF Head(t) \in Whitespace
         THEN IF Len(t) > 1 /\ t[2] \in Whitespace
              THEN CollapseWhitespace(Tail(t))
              ELSE <<" ">> \o CollapseWhitespace(Tail(t))
         ELSE <<Head(t)>> \o CollapseWhitespace(Tail(t))

\* ' '.join(parts)
RECURSIVE JoinSpace(_)
JoinSpace(parts) ==
    IF parts = <<>> THEN <<>>
    ELSE IF Len(parts) = 1 THEN parts[1]
    ELSE parts[1] \o <<" ">> \o JoinSpace(Tail(parts))

RECURSIVE Flatten(_)
Flatten(seqs) == IF seqs = <<>> THEN <<>> ELSE Head(seqs) \o Flatten(Tail(seqs))

----------------------------------------------------------------------------
(* extract_video_id *)

IdLen == 11

IdChars ==
    {"0", "1", "2", "3", "4", "5", "6", "7", "8", "9", "A", "B", "C", "D", "E",
     "F", "G", "H", "I", "J", "K", "L", "M", "N", "O", "P", "Q", "R", "S", "T",
     "U", "V", "W", "X", "Y", "Z", "a", "b", "c", "d", "e", "f", "g", "h", "i",
     "j", "k", "l", "m", "n", "o", "p", "q", "r", "s", "t", "u", "v", "w", "x",
     "y", "z", "_", "-"}

LitV == <<"v", "=">>
LitSlash == <<"/">>
LitYoutu == <<"y", "o", "u", "t", "u">>
LitBe == <<"b", "e", "/">>
LitWatchV == <<"w", "a", "t", "c", "h", "?", "v", "=">>
LitEmbed == <<"e", "m", "b", "e", "d", "/">>
LitWatch == <<"w", "a", "t", "c", "h", "?">>
LitAmpV == <<"&", "v", "=">>

\* the literal lit stands in s at position i
LitAt(s, i, lit) ==
    /\ i >= 1
    /\ i + Len(lit) - 1 <= Len(s)
    /\ \A k \in 1..Len(lit) : s[i + k - 1] = lit[k]

\* [0-9A-Za-z_-]{11} stands in s at position i
IdAt(s, i) ==
    /\ i >= 1
    /\ i + IdLen - 1 <= Len(s)
    /\ \A k \in 0..(IdLen - 1) : s[i + k] \in IdChars

\* re.match(r'^[0-9A-Za-z_-]{11}$', url): $ also matches before one final newline
MatchesRawId(s) ==
    /\ IdAt(s, 1)
    /\ \/ Len(s) = IdLen
       \/ Len(s) = IdLen + 1 /\ s[Len(s)] = "\n"

\* Each SearchN is re.search of the N-th pattern: the position of group 1 in the
\* leftmost match, 0 when the pattern matches nowhere.
\* r"(?:v=|/)([0-9A-Za-z_-]{11})"
Search1(s) ==
    LET at(i) == \/ LitAt(s, i, LitV) /\ IdAt(s, i + 2)
                 \/ LitAt(s, i, LitSlash) /\ IdAt(s, i + 1)
        M == {i \in 1..Len(s) : at(i)}
    IN  IF M = {} THEN 0
        ELSE IF LitAt(s, Min(M), LitV) THEN Min(M) + 2 ELSE Min(M) + 1

\* r"youtu.be/([0-9A-Za-z_-]{11})": the dot is any character but a newline
Search2(s) ==
    LET at(i) == /\ LitAt(s, i, LitYoutu)
                 /\ i + 5 <= Len(s)
                 /\ s[i + 5] # "\n"
                 /\ LitAt(s, i + 6, LitBe)
                 /\ IdAt(s, i + 9)
        M == {i \in 1..Len(s) : at(i)}
    IN  IF M = {} THEN 0 ELSE Min(M) + 9

\* r"watch\?v=([0-9A-Za-z_-]{11})"
Search3(s) ==
    LET M == {i \in 1..Len(s) : LitAt(s, i, LitWatchV) /\ IdAt(s, i + 8)}
    IN  IF M = {} THEN 0 ELSE Min(M) + 8

\* r"embed/([0-9A-Za-z_-]{11})"
Search4(s) ==
    LET M == {i \in 1..Len(s) : LitAt(s, i, LitEmbed) /\ IdAt(s, i + 6)}
    IN  IF M = {} THEN 0 ELSE Min(M) + 6

\* r"watch\?.*&v=([0-9A-Za-z_-]{11})": .* is greedy and stops at a newline
Search5(s) ==
    LET ends(i) == {j \in (i + 6)..Len(s) :
                       /\ \A k \in (i + 6)..(j - 1) : s[k] # "\n"
                       /\ LitAt(s, j, LitAmpV)
                       /\ IdAt(s, j + 3)}
        M == {i \in 1..Len(s) : LitAt(s, i, LitWatch) /\ ends(i) # {}}
    IN  IF M = {} THEN 0 ELSE Max(ends(Min(M))) + 3

\* the list `patterns`, by index
SearchPattern(n, s) ==
    CASE n = 1 -> Search1(s)
      [] n = 2 -> Search2(s)
      [] n = 3 -> Search3(s)
      [] n = 4 -> Search4(s)
      [] n = 5 -> Search5(s)

\* for pattern in patterns: the first pattern that matches decides
FirstMatch(s) ==
    LET hits == {n \in 1..5 : SearchPattern(n, s) # 0}
    IN  IF hits = {} THEN 0 ELSE SearchPattern(Min(hits), s)

extract_video_id(s) ==
    IF MatchesRawId(s) THEN Return(s)
    ELSE IF FirstMatch(s) # 0
         THEN Return(SubSeq(s, FirstMatch(s), FirstMatch(s) + IdLen - 1))
         ELSE Raise("ValueError", "InvalidURL", {})

----------------------------------------------------------------------------
(* Input strings of extract_video_id: scheme, url shape up to its marker,    *)
(* video id, and what follows the id                                         *)

Https == <<"h", "t", "t", "p", "s", ":", "/", "/">>
Http == <<"h", "t", "t", "p", ":", "/", "/">>
Schemes == {Https, Http, <<>>}

\* www.youtube.com/watch?v=
WatchShape ==
    <<"w", "w", "w", ".", "y", "o", "u", "t", "u", "b", "e", ".", "c", "o", "m", "/",
      "w", "a", "t", "c", "h", "?", "v", "=">>
\* youtu.be/
ShortShape == <<"y", "o", "u", "t", "u", ".", "b", "e", "/">>
\* www.youtube.com/embed/
EmbedShape ==
    <<"w", "w", "w", ".", "y", "o", "u", "t", "u", "b", "e", ".", "c", "o", "m", "/",
      "e", "m", "b", "e", "d", "/">>
\* youtube-nocookie.com/embed/
NoCookieEmbedShape ==
    <<"y", "o", "u", "t", "u", "b", "e", "-", "n", "o", "c", "o", "o", "k", "i", "e",
      ".", "c", "o", "m", "/", "e", "m", "b", "e", "d", "/">>
\* www.youtube.com/watch?feature=share&v=
MultiShape ==
    <<"w", "w", "w", ".", "y", "o", "u", "t", "u", "b", "e", ".", "c", "o", "m", "/",
      "w", "a", "t", "c", "h", "?", "f", "e", "a", "t", "u", "r", "e", "=", "s", "h",
      "a", "r", "e", "&", "v", "=">>
Shapes == {WatchShape, ShortShape, EmbedShape, NoCookieEmbedShape, MultiShape}

IdA == <<"d", "Q", "w", "4", "w", "9", "W", "g", "X", "c", "Q">>
IdB == <<"a", "_", "b", "-", "C", "0", "d", "1", "E", "2", "f">>
Ids == {IdA, IdB}

\* nothing, &t=42s, a newline
Tails == {<<>>, <<"&", "t", "=", "4", "2", "s">>, <<"\n">>}

Garbage == <<"n", "o", "t", " ", "a", " ", "u", "r", "l">>
\* ten characters: one short of an id
ShortId == <<"d", "Q", "w", "4", "w", "9", "W", "g", "X", "c">>

ShapedUrls == {sc \o sh \o id \o tl : sc \in Schemes, sh \in Shapes, id \in Ids, tl \in Tails}

RawIds == {id \o tl : id \in Ids, tl \in Tails}

NoIdUrls == {Garbage, ShortId, <<>>} \cup {sc \o sh \o ShortId : sc \in Schemes, sh \in Shapes}

TestUrls == ShapedUrls \cup RawIds \cup NoIdUrls

----------------------------------------------------------------------------
(* JSON values of a caption payload.  Every value is a record of one shape:  *)
(* t is the JSON type, keys the keys of a dict that the parser looks at,     *)
(* and segs / utf8 / aAppend / wWinId / items the values under them.  A key  *)
(* aAppend or wWinId is listed only when its value is a string: any other    *)
(* value fails the isinstance(e[key], str) test and behaves as if absent.    *)

JsonValue(type, ks, sg, u, a, w, it) ==
    [t |-> type, keys |-> ks, segs |-> sg, utf8 |-> u, aAppend |-> a,
     wWinId |-> w, items |-> it]

Seg(text) == JsonValue("dict", {"utf8"}, <<>>, text, <<>>, <<>>, <<>>)

JsonList(its) == JsonValue("list", {}, <<>>, <<>>, <<>>, <<>>, its)

JsonScalar == JsonValue("scalar", {}, <<>>, <<>>, <<>>, <<>>, <<>>)

Event(sg) == JsonValue("dict", {"segs"}, sg, <<>>, <<>>, <<>>, <<>>)

EventNoSegs == JsonValue("dict", {}, <<>>, <<>>, <<>>, <<>>, <<>>)

EventAppend(sg, a) == JsonValue("dict", {"segs", "aAppend"}, sg, <<>>, a, <<>>, <<>>)

EventWindow(sg, w) == JsonValue("dict", {"segs", "wWinId"}, sg, <<>>, <<>>, w, <<>>)

\* A payload: the bytes are well-formed JSON or not; the document is a dict
\* (whose 'events' value is events, empty when the key is absent) or a list.
Payload(ok, type, evs) == [wf |-> ok, top |-> type, events |-> evs]

----------------------------------------------------------------------------
(* parse_json3_subtitles *)

\* if 'segs' in e: for seg in e['segs']: if isinstance(seg, dict) and 'utf8' in seg
SegTexts(e) ==
    IF "segs" \in e.keys
    THEN LET good == SelectSeq(e.segs, LAMBDA seg : seg.t = "dict" /\ "utf8" \in seg.keys)
         IN  [i \in 1..Len(good) |-> good[i].utf8]
    ELSE <<>>

\* for key in ['aAppend', 'wWinId']: if key in e and isinstance(e[key], str)
AuxTexts(e) ==
    (IF "aAppend" \in e.keys THEN <<e.aAppend>> ELSE <<>>)
    \o (IF "wWinId" \in e.keys THEN <<e.wWinId>> ELSE <<>>)

RECURSIVE extract_text_from_event(_)
extract_text_from_event(e) ==
    IF e.t = "dict" THEN SegTexts(e) \o AuxTexts(e)
    ELSE IF e.t = "list"
         THEN Flatten([i \in 1..Len(e.items) |-> extract_text_from_event(e.items[i])])
         ELSE <<>>

\* cleaned_text = text.replace('\n', ' ').strip(); kept when not empty
CleanTexts(texts) ==
    SelectSeq([i \in 1..Len(texts) |-> Strip(ReplaceNewlines(texts[i]))],
              LAMBDA c : c # <<>>)

\* for event in data.get('events', []): events that are not dicts are skipped
TextParts(events) ==
    Flatten([i \in 1..Len(events) |->
                IF events[i].t # "dict" THEN <<>>
                ELSE CleanTexts(extract_text_from_event(events[i]))])

\* full_text = re.sub(r'\s+', ' ', ' '.join(text_parts)).strip()
FullText(events) == Strip(CollapseWhitespace(JoinSpace(TextParts(events))))

parse_json3_subtitles(p) ==
    IF ~p.wf THEN Raise("JSONDecodeError", "MalformedCaptionData", {})
    ELSE IF p.top # "dict" THEN Raise("AttributeError", "", {})
    ELSE Return(FullText(p.events))

----------------------------------------------------------------------------
(* The collaborator: caption catalogs and the payloads behind track urls *)

Langs == {"pt", "pt-BR", "pt-PT", "en", "es", "fr"}

LangOrder == <<"pt", "pt-BR", "pt-PT", "en", "es", "fr">>

Kinds == <<"manual", "auto">>

PortugueseLangs == <<"pt", "pt-BR", "pt-PT">>

Exts == {"json3", "vtt"}

\* A catalog is listed track by track: the kind and language a track belongs
\* to and its format.  Its url is the place of the track in its list.
Entries == [kind : {"manual", "auto"}, lang : Langs, ext : Exts]

IndexIn(seq, x) == CHOOSE i \in 1..Len(seq) : seq[i] = x

SlotIndex(e) == (IndexIn(Kinds, e.kind) - 1) * Len(LangOrder) + IndexIn(LangOrder, e.lang)

\* one listing per catalog: the tracks grouped by kind and language
Grouped(es) == \A i \in 1..(Len(es) - 1) : SlotIndex(es[i]) <= SlotIndex(es[i + 1])

\* the mapping language -> track list of one kind; a language without tracks is absent
CatalogMap(es, kind) ==
    [l \in {es[i].lang : i \in {j \in 1..Len(es) : es[j].kind = kind}} |->
        LET mine == SelectSeq(es, LAMBDA e : e.kind = kind /\ e.lang = l)
        IN  [i \in 1..Len(mine) |-> [ext |-> mine[i].ext, url |-> <<kind, l, i>>]]]

\* The bytes a track url can serve: malformed JSON, a document without events,
\* and documents whose text is "a", "b" and "c c".
PayloadBad == Payload(FALSE, "dict", <<>>)
PayloadEmpty == Payload(TRUE, "dict", <<>>)
PayloadA == Payload(TRUE, "dict", <<Event(<<Seg(<<"a", "\n">>)>>)>>)
PayloadB == Payload(TRUE, "dict", <<Event(<<Seg(<<" ", "b">>)>>)>>)
PayloadCC ==
    Payload(TRUE, "dict", <<Event(<<Seg(<<"c", " ">>)>>), Event(<<Seg(<<"c", "\n">>)>>)>>)

ServedPayloads == {PayloadBad, PayloadEmpty, PayloadA, PayloadB, PayloadCC}

----------------------------------------------------------------------------
(* get_subtitles_with_ytdlp *)

\* the json3 tracks one of the two Portuguese loops downloads, in loop order
Json3Work(catalog) ==
    Flatten([n \in 1..Len(PortugueseLangs) |->
                IF PortugueseLangs[n] \in DOMAIN catalog
                THEN SelectSeq(catalog[PortugueseLangs[n]], LAMBDA sub : sub.ext = "json3")
                ELSE <<>>])

\* a max() that keeps the last of the longest
LastLongest(ts) ==
    ts[Max({i \in 1..Len(ts) : \A j \in 1..Len(ts) : Len(ts[j]) <= Len(ts[i])})]

\* max(possible_transcriptions, key=len): the first of the longest
Longest(ts) ==
    ts[Min({i \in 1..Len(ts) : \A j \in 1..Len(ts) : Len(ts[j]) <= Len(ts[i])})]

\* "[Transcrição em inglês - tradução automática não disponível]\n\n", the bracketed
\* sentence shortened to "[en]"
Marker == <<"[", "e", "n", "]", "\n", "\n">>

\* subtitles.get('en', automatic_captions.get('en', []))
EnglishSubs(subs, autos) ==
    IF "en" \in DOMAIN subs THEN subs["en"]
    ELSE IF "en" \in DOMAIN autos THEN autos["en"]
    ELSE <<>>

KeyList(catalog) == SelectSeq(LangOrder, LAMBDA l : l \in DOMAIN catalog)

\* an all_langs that forgets the automatic captions
ManualLangsOnly(subs, autos) == KeyList(subs)

\* all_langs = list(subtitles.keys()) + list(automatic_captions.keys())
AllLangs(subs, autos) == KeyList(subs) \o KeyList(autos)

\* the two raise statements that end the function
NoCaptions(subs, autos) ==
    LET all_langs == AllLangs(subs, autos)
    IN  IF all_langs # <<>>
        THEN Raise("ValueError", "NoPreferredCaptions",
                   {all_langs[i] : i \in 1..Len(all_langs)})
        ELSE Raise("ValueError", "NoCaptionsAvailable", {})

----------------------------------------------------------------------------
(* transcribe_video: the two nested try statements *)

\* the body of the inner try, given how get_subtitles_with_ytdlp ended
InnerBody(o) ==
    IF o.kind = "raise" THEN o
    ELSE IF Strip(o.text) # <<>> THEN Return(Strip(o.text))
    ELSE HTTPException(404, "EmptyTranscription", {})

\* except ValueError / except Exception of the inner try
InnerHandlers(e) ==
    IF IsValueError(e.exc) THEN HTTPException(404, e.msg, e.langs)
    ELSE HTTPException(500, e.msg, e.langs)

\* except ValueError / except HTTPException / except Exception of the outer try
OuterHandlers(e) ==
    IF IsValueError(e.exc) THEN HTTPException(400, e.msg, e.langs)
    ELSE IF IsHTTPException(e.exc) THEN e
    ELSE HTTPException(500, e.msg, e.langs)

InnerTry(o) == IF InnerBody(o).kind = "raise" THEN InnerHandlers(InnerBody(o)) ELSE InnerBody(o)

OuterTry(r) == IF r.kind = "raise" THEN OuterHandlers(r) ELSE r

NoResponse == [status |-> 0, transcription |-> <<>>, detail |-> "", langs |-> {}]

ToResponse(r) ==
    [status |-> IF r.kind = "return" THEN 200 ELSE r.status,
     transcription |-> r.text, detail |-> r.msg, langs |-> r.langs]

----------------------------------------------------------------------------
(* One POST /transcribe request *)

RequestUrls == {Https \o ShortShape \o IdA, Garbage}

Idle ==
    /\ video_id = NoResult
    /\ subtitles = <<>>
    /\ automatic_captions = <<>>
    /\ possible_transcriptions = <<>>
    /\ cursor = 0
    /\ fetched = <<>>
    /\ outcome = NoResult
    /\ response = NoResponse
    /\ json_data = PayloadEmpty
    /\ parsed = NoResult

Init ==
    /\ pc = "start"
    /\ url \in RequestUrls
    /\ Idle

\* get_subtitles_with_ytdlp ends with o; transcribe_video turns it into the response
Finish(o) ==
    /\ outcome' = o
    /\ response' = ToResponse(OuterTry(InnerTry(o)))
    /\ pc' = "done"

\* video_id = extract_video_id(request.url), and the outer handlers when it raises
ExtractVideoId ==
    /\ pc = "start"
    /\ video_id' = extract_video_id(url)
    /\ IF video_id'.kind = "raise"
       THEN /\ response' = ToResponse(OuterTry(video_id'))
            /\ pc' = "done"
       ELSE /\ response' = response
            /\ pc' = "extract_info"
    /\ UNCHANGED <<url, subtitles, automatic_captions, possible_transcriptions,
                   cursor, fetched, outcome, json_data, parsed>>

\* info = ydl.extract_info(video_url, download=False): the collaborator's catalog
ExtractInfo ==
    /\ pc = "extract_info"
    /\ \E n \in 0..MaxTracks : \E es \in [1..n -> Entries] :
          /\ Grouped(es)
          /\ subtitles' = CatalogMap(es, "manual")
          /\ automatic_captions' = CatalogMap(es, "auto")
    /\ possible_transcriptions' = <<>>
    /\ cursor' = 1
    /\ pc' = "download"
    /\ UNCHANGED <<url, video_id, fetched, outcome, response, json_data, parsed>>

\* ydl.extract_info raises (video unavailable, network error)
ExtractInfoFails ==
    /\ pc = "extract_info"
    /\ Finish(Raise("DownloadError", "UpstreamFetchError", {}))
    /\ UNCHANGED <<url, video_id, subtitles, automatic_captions,
                   possible_transcriptions, cursor, fetched, json_data, parsed>>

\* the downloads of the manual loop, then those of the automatic loop
Work == Json3Work(subtitles) \o Json3Work(automatic_captions)

\* One pass of the inner loop body of a Portuguese loop: ydl.urlopen(sub['url'])
\* raises or serves some bytes, which are parsed and whose text is appended.
Download ==
    LET sub == Work[cursor]
    IN  /\ pc = "download"
        /\ cursor <= Len(Work)
        /\ \/ /\ fetched' = Append(fetched, [url |-> sub.url, ok |-> FALSE, text |-> <<>>])
              /\ Finish(Raise("URLError", "UpstreamFetchError", {}))
              /\ UNCHANGED <<possible_transcriptions, cursor>>
           \/ \E data \in ServedPayloads :
                 LET transcription == parse_json3_subtitles(data)
                 IN  /\ fetched' = Append(fetched, [url |-> sub.url,
                                                    ok |-> transcription.kind = "return",
                                                    text |-> transcription.text])
                     /\ IF transcription.kind = "raise"
                        THEN /\ Finish(transcription)
                             /\ UNCHANGED <<possible_transcriptions, cursor>>
                        ELSE /\ possible_transcriptions' =
                                    Append(possible_transcriptions, transcription.text)
                             /\ cursor' = cursor + 1
                             /\ UNCHANGED <<outcome, response, pc>>
        /\ UNCHANGED <<url, video_id, subtitles, automatic_captions, json_data, parsed>>

\* for lang in ['pt', 'pt-BR', 'pt-PT']: ... for sub in subtitles[lang]
FetchManual ==
    /\ cursor <= Len(Json3Work(subtitles))
    /\ Download

\* for lang in ['pt', 'pt-BR', 'pt-PT']: ... for sub in automatic_captions[lang]
FetchAuto ==
    /\ cursor > Len(Json3Work(subtitles))
    /\ Download

\* if possible_transcriptions: return max(possible_transcriptions, key=len)
ReturnLongest ==
    /\ pc = "download"
    /\ cursor > Len(Work)
    /\ possible_transcriptions # <<>>
    /\ Finish(Return(Longest(possible_transcriptions)))
    /\ UNCHANGED <<url, video_id, subtitles, automatic_captions,
                   possible_transcriptions, cursor, fetched, json_data, parsed>>

\* if 'en' in subtitles or 'en' in automatic_captions: the first json3 track of
\* subs_dict is downloaded and returned behind the marker; without one the
\* function goes on to its raise statements
EnglishFallback ==
    LET js == SelectSeq(EnglishSubs(subtitles, automatic_captions),
                        LAMBDA sub : sub.ext = "json3")
    IN  /\ pc = "download"
        /\ cursor > Len(Work)
        /\ possible_transcriptions = <<>>
        /\ "en" \in DOMAIN subtitles \/ "en" \in DOMAIN automatic_captions
        /\ IF js = <<>>
           THEN /\ Finish(NoCaptions(subtitles, automatic_captions))
                /\ fetched' = fetched
           ELSE \/ /\ fetched' = Append(fetched, [url |-> js[1].url, ok |-> FALSE,
                                                  text |-> <<>>])
                   /\ Finish(Raise("URLError", "UpstreamFetchError", {}))
                \/ \E data \in ServedPayloads :
                      LET transcription == parse_json3_subtitles(data)
                      IN  /\ fetched' = Append(fetched, [url |-> js[1].url,
                                                         ok |-> transcription.kind = "return",
                                                         text |-> transcription.text])
                          /\ Finish(IF transcription.kind = "raise" THEN transcription
                                    ELSE Return(Marker \o transcription.text))
        /\ UNCHANGED <<url, video_id, subtitles, automatic_captions,
                       possible_transcriptions, cursor, json_data, parsed>>

\* neither Portuguese text nor an 'en' key: the raise statements
RaiseNoCaptions ==
    /\ pc = "download"
    /\ cursor > Len(Work)
    /\ possible_transcriptions = <<>>
    /\ "en" \notin DOMAIN subtitles
    /\ "en" \notin DOMAIN automatic_captions
    /\ Finish(NoCaptions(subtitles, automatic_captions))
    /\ UNCHANGED <<url, video_id, subtitles, automatic_captions,
                   possible_transcriptions, cursor, fetched, json_data, parsed>>

Next ==
    \/ ExtractVideoId
    \/ ExtractInfo
    \/ ExtractInfoFails
    \/ FetchManual
    \/ FetchAuto
    \/ ReturnLongest
    \/ EnglishFallback
    \/ RaiseNoCaptions

Spec == Init /\ [][Next]_vars

----------------------------------------------------------------------------
(* extract_video_id on its own *)

InitExtract ==
    /\ pc = "start"
    /\ url \in TestUrls
    /\ Idle

CallExtract ==
    /\ pc = "start"
    /\ video_id' = extract_video_id(url)
    /\ pc' = "done"
    /\ UNCHANGED <<url, subtitles, automatic_captions, possible_transcriptions,
                   cursor, fetched, outcome, response, json_data, parsed>>

NextExtract == CallExtract

SpecExtract == InitExtract /\ [][NextExtract]_vars

----------------------------------------------------------------------------
(* parse_json3_subtitles on its own *)

GenTexts ==
    UNION {[1..k -> {"a", " ", "\n"}] : k \in 0..MaxTextLen}
    \cup {<<"a", "\n", "\n", "a">>, <<"\t", "a">>}

\* a segs entry: a segment, a list holding at most one segment, or a scalar
GenSegs ==
    {Seg(t) : t \in GenTexts}
    \cup {JsonList(<<Seg(t)>>) : t \in GenTexts}
    \cup {JsonList(<<>>), JsonScalar}

GenSegLists == UNION {[1..k -> GenSegs] : k \in 0..MaxSegs}

\* an entry of events: a dict with or without segs, with a string under
\* aAppend or wWinId, or something that is not a dict
GenEvents ==
    {Event(sg) : sg \in GenSegLists}
    \cup {EventAppend(<<Seg(t)>>, <<"a">>) : t \in GenTexts}
    \cup {EventWindow(<<Seg(t)>>, <<"a", " ">>) : t \in GenTexts}
    \cup {EventNoSegs, JsonScalar, JsonList(<<Event(<<Seg(<<"a">>)>>)>>)}

GenPayloads ==
    {Payload(TRUE, "dict", evs) : evs \in UNION {[1..k -> GenEvents] : k \in 0..MaxEvents}}
    \cup {PayloadBad, Payload(TRUE, "list", <<>>)}

InitParse ==
    /\ pc = "start"
    /\ url = <<>>
    /\ video_id = NoResult
    /\ subtitles = <<>>
    /\ automatic_captions = <<>>
    /\ possible_transcriptions = <<>>
    /\ cursor = 0
    /\ fetched = <<>>
    /\ outcome = NoResult
    /\ response = NoResponse
    /\ json_data \in GenPayloads
    /\ parsed = NoResult

CallParse ==
    /\ pc = "start"
    /\ parsed' = parse_json3_subtitles(json_data)
    /\ pc' = "done"
    /\ UNCHANGED <<url, video_id, subtitles, automatic_captions,
                   possible_transcriptions, cursor, fetched, outcome, response, json_data>>

NextParse == CallParse

SpecParse == InitParse /\ [][NextParse]_vars

----------------------------------------------------------------------------
(* Properties *)

PortugueseSet == {"pt", "pt-BR", "pt-PT"}

PreferredSet == PortugueseSet \cup {"en"}

\* get_subtitles_with_ytdlp was called with a catalog and has ended
Ended == pc = "done" /\ cursor > 0 /\ outcome.kind # "none"

Returned == Ended /\ outcome.kind = "return"

\* the urls of the json3 tracks of language l in the catalog, in list order
Json3Urls(catalog, l) ==
    IF l \in DOMAIN catalog
    THEN LET js == SelectSeq(catalog[l], LAMBDA sub : sub.ext = "json3")
         IN  [i \in 1..Len(js) |-> js[i].url]
    ELSE <<>>

HasJson3(catalog, l) == Json3Urls(catalog, l) # <<>>

\* the downloads of this request that belong to the tracks of kind and language l
LogOf(kind, l) == SelectSeq(fetched, LAMBDA f : f.url[1] = kind /\ f.url[2] = l)

UrlsOf(log) == [i \in 1..Len(log) |-> log[i].url]

TextsOf(log) == [i \in 1..Len(log) |-> log[i].text]

\* the text of greatest length; among several, the one that comes first
FirstOfGreatest(ts) ==
    ts[CHOOSE i \in 1..Len(ts) :
          /\ \A j \in 1..Len(ts) : Len(ts[j]) <= Len(ts[i])
          /\ \A j \in 1..(i - 1) : Len(ts[j]) < Len(ts[i])]

NoManualPortugueseJson3 == \A l \in PortugueseSet : ~HasJson3(subtitles, l)

NoPortugueseJson3 ==
    \A l \in PortugueseSet : ~HasJson3(subtitles, l) /\ ~HasJson3(automatic_captions, l)

\* C1: when the catalog holds a manual pt json3 track and an automatic pt json3
\* track, the text returned is the parsed text of a manual pt track.
C1_ManualPtChosen ==
    (Returned /\ HasJson3(subtitles, "pt") /\ HasJson3(automatic_captions, "pt"))
    => \E i \in 1..Len(fetched) :
          /\ fetched[i].url[1] = "manual"
          /\ fetched[i].url[2] = "pt"
          /\ fetched[i].ok
          /\ fetched[i].text = outcome.text

\* C2: when selection returns a text that is empty after trimming, the response
\* has status 404.
C2_EmptyIsNotFound ==
    (Returned /\ Strip(outcome.text) = <<>>) => response.status = 404

\* C3: when a downloaded payload is not parseable as JSON, the response has
\* status 500 and carries no transcription text.
C3_MalformedIsServerError ==
    (Ended /\ outcome.kind = "raise" /\ outcome.msg = "MalformedCaptionData")
    => response.status = 500 /\ response.transcription = <<>>

\* C4: without any Portuguese json3 track and with a json3 en track, the one
\* payload downloaded is the first json3 variant of the manual en tracks if
\* there is one and of the automatic en tracks otherwise, and its parsed text
\* is returned behind the marker.
C4_EnglishFallback ==
    (Ended /\ NoPortugueseJson3
       /\ (HasJson3(subtitles, "en") \/ HasJson3(automatic_captions, "en")))
    => LET expected == IF HasJson3(subtitles, "en")
                       THEN Json3Urls(subtitles, "en")[1]
                       ELSE Json3Urls(automatic_captions, "en")[1]
       IN  /\ UrlsOf(fetched) = <<expected>>
           /\ fetched[1].ok => outcome = Return(Marker \o fetched[1].text)

\* C5: when neither map holds pt, pt-BR, pt-PT or en, selection downloads
\* nothing and returns no text: it raises NoPreferredCaptions listing exactly
\* the union of the manual and automatic languages when there is a language,
\* and NoCaptionsAvailable when both maps are empty.
C5_NoQualifyingLanguage ==
    (Ended /\ (DOMAIN subtitles \cup DOMAIN automatic_captions) \cap PreferredSet = {})
    => /\ fetched = <<>>
       /\ outcome.kind = "raise"
       /\ outcome.exc = "ValueError"
       /\ IF DOMAIN subtitles \cup DOMAIN automatic_captions # {}
          THEN /\ outcome.msg = "NoPreferredCaptions"
               /\ outcome.langs = DOMAIN subtitles \cup DOMAIN automatic_captions
          ELSE outcome.msg = "NoCaptionsAvailable"

\* C5 witness: languages in both maps, none of them preferred, and the two maps differ
C5_Witness ==
    /\ Ended
    /\ outcome.msg = "NoPreferredCaptions"
    /\ (DOMAIN subtitles \cup DOMAIN automatic_captions) \cap PreferredSet = {}
    /\ DOMAIN subtitles # {}
    /\ DOMAIN automatic_captions # {}
    /\ DOMAIN subtitles # DOMAIN automatic_captions

\* C6: when the manual pt tracks have several json3 variants, all of them are
\* downloaded and the text returned is the longest of their parsed texts, the
\* first of them on a tie.
C6_LongestManualPt ==
    (Returned /\ Len(Json3Urls(subtitles, "pt")) >= 2)
    => /\ UrlsOf(LogOf("manual", "pt")) = Json3Urls(subtitles, "pt")
       /\ outcome.text = FirstOfGreatest(TextsOf(LogOf("manual", "pt")))

SeveralAutomaticVariants ==
    \E l \in PortugueseSet : Len(Json3Urls(automatic_captions, l)) >= 2

AutomaticPortugueseUrls ==
    Json3Urls(automatic_captions, "pt") \o Json3Urls(automatic_captions, "pt-BR")
    \o Json3Urls(automatic_captions, "pt-PT")

RECURSIVE LeafTexts(_)
LeafTexts(v) ==
    IF v.t = "dict" THEN (IF "utf8" \in v.keys THEN <<v.utf8>> ELSE <<>>)
    ELSE IF v.t = "list"
         THEN Flatten([i \in 1..Len(v.items) |-> LeafTexts(v.items[i])])
         ELSE <<>>

EventFragments(e) ==
    IF e.t # "dict" THEN <<>>
    ELSE (IF "segs" \in e.keys
          THEN Flatten([i \in 1..Len(e.segs) |-> LeafTexts(e.segs[i])])
          ELSE <<>>) \o AuxTexts(e)

AllFragments(events) == Flatten([i \in 1..Len(events) |-> EventFragments(events[i])])

\* C8: for a well-formed payload the parser returns the text of all segments,
\* those inside nested lists of an event included, each with newlines turned
\* into spaces and trimmed, the empty ones dropped, joined by single spaces;
\* whitespace collapse and trim leave the result as it is.
C8_AllLeafTextNormalized ==
    (pc = "done" /\ json_data.wf /\ json_data.top = "dict")
    => /\ parsed.kind = "return"
       /\ parsed.text =
             Strip(CollapseWhitespace(JoinSpace(CleanTexts(AllFragments(json_data.events)))))
       /\ Strip(CollapseWhitespace(parsed.text)) = parsed.text
       /\ \A i \in 1..(Len(parsed.text) - 1) :
             ~(parsed.text[i] \in Whitespace /\ parsed.text[i + 1] \in Whitespace)

IsIdToken(s) == Len(s) = IdLen /\ \A i \in 1..Len(s) : s[i] \in IdChars

\* C9: extract_video_id returns an 11-character id token or raises InvalidURL;
\* it returns an id token unchanged; for a watch, short, embed or
\* multi-parameter url it returns the id that follows the marker; it raises
\* when there is no id to find.
C9_ExtractContract ==
    pc = "done"
    => /\ \/ video_id.kind = "return" /\ IsIdToken(video_id.text)
          \/ video_id.kind = "raise" /\ video_id.msg = "InvalidURL"
       /\ IsIdToken(url) => video_id = Return(url)
       /\ \A sc \in Schemes : \A sh \in Shapes : \A id \in Ids : \A tl \in Tails :
             url = sc \o sh \o id \o tl => video_id = Return(id)
       /\ url \in {Garbage, ShortId, <<>>} => video_id.kind = "raise"

ManualPortugueseObtained ==
    \E i \in 1..Len(fetched) :
       fetched[i].url[1] = "manual" /\ fetched[i].url[2] \in PortugueseSet /\ fetched[i].ok

\* C10: once the payload of a manual Portuguese track has been downloaded and
\* parsed, every later download of the request is again that of a manual
\* Portuguese track: no automatic and no English track is downloaded.
C10_NoLowerTierDownload ==
    [][ManualPortugueseObtained
          => (Len(fetched') > Len(fetched)
                => /\ fetched'[Len(fetched')].url[1] = "manual"
                   /\ fetched'[Len(fetched')].url[2] \in PortugueseSet)]_vars

====
